---- MODULE Spec2Model ----
(***************************************************************************)
(* Model of the indexing workflow of src/__init__.py: an HTTP-triggered    *)
(* handler (manual_index) that runs run_indexing, which posts the index    *)
(* schema, resolves the target containers against the storage account and  *)
(* registers one data source and one indexer per resolved container.       *)
(*                                                                         *)
(* Python strings that the code takes apart (the BLOB_CONTAINERS value and *)
(* the container names derived from it) are sequences of one-character     *)
(* strings, so that split, strip and the "-ds"/"-idx" suffixes are         *)
(* computed as the code computes them.  Strings the code only passes       *)
(* around (index name, API version, credentials) are TLA+ strings.         *)
(***************************************************************************)
EXTENDS Integers, Sequences, FiniteSets, TLC

(* ------------------------------ bounds --------------------------------- *)
\* longest BLOB_CONTAINERS value explored
MaxLen == 3
\* longest container listing returned by the storage account
MaxAvail == 2

\* characters a BLOB_CONTAINERS value is made of: two letters, the
\* separator and one whitespace character
Chars == {"a", "b", ",", " "}
\* container names a storage account may hold
Names == {<<"a">>, <<"b">>, <<"a", "b">>}
\* HTTP status codes the search service may answer with
StatusCodes == {201, 409}
\* exceptions the requests library raises when no response arrives
TransportErrors == {"ConnectionError"}
\* exceptions the storage client raises (bad credential, network)
StorageErrors == {"ClientAuthenticationError"}

Strings == UNION {[1..k -> Chars] : k \in 0..MaxLen}
Listings == UNION {{l \in [1..k -> Names] : \A x, y \in 1..k : l[x] = l[y] => x = y}
                     : k \in 0..MaxAvail}

(* ------------------------- string primitives --------------------------- *)
IsSpace(ch) == ch = " "

RECURSIVE lstrip(_)
lstrip(s) == IF s = <<>> THEN s
             ELSE IF IsSpace(Head(s)) THEN lstrip(Tail(s)) ELSE s

RECURSIVE rstrip(_)
rstrip(s) == IF s = <<>> THEN s
             ELSE IF IsSpace(s[Len(s)]) THEN rstrip(SubSeq(s, 1, Len(s) - 1)) ELSE s

\* str.strip(): drop leading and trailing whitespace
strip(s) == rstrip(lstrip(s))

\* str.split(sep): the pieces between separators; never an empty list
RECURSIVE split(_, _)
split(s, sep) ==
  IF \E k \in 1..Len(s) : s[k] = sep
  THEN LET k == CHOOSE k \in 1..Len(s) : s[k] = sep /\ \A j \in 1..(k - 1) : s[j] # sep
       IN <<SubSeq(s, 1, k - 1)>> \o split(SubSeq(s, k + 1, Len(s)), sep)
  ELSE <<s>>

\* the elements of a list
Elems(l) == {l[k] : k \in 1..Len(l)}

(* --------------------------- configuration ----------------------------- *)
\* os.getenv(key, default)
getenv(env, key, default) == IF key \in DOMAIN env THEN env[key] ELSE default

BLOB_CONTAINERS(env) == getenv(env, "BLOB_CONTAINERS", <<>>)
SEARCH_API_KEY == "AZURE_SEARCH_ADMIN_KEY"
STORAGE_CONN_STRING == "AZURE_STORAGE_CONNECTION_STRING"
HEADERS == [content_type |-> "application/json", api_key |-> SEARCH_API_KEY]

API_VERSION == "2024-07-01"
INDEX_NAME == "financial-index"
DS_SUFFIX == <<"-", "d", "s">>
IDX_SUFFIX == <<"-", "i", "d", "x">>

NoExc == [type |-> "", message |-> "", origin |-> ""]

(* ------------------------------- state --------------------------------- *)
VARIABLES
  environ,     \* os.environ as read at import: a function on the names set
  storage,     \* the storage account: the container names list_containers yields
  pc,          \* position of the current invocation of manual_index
  calls,       \* outbound calls issued by the current invocation, in order
  statuses,    \* status codes of the responses received, in order
  containers,  \* run_indexing's local `containers`
  idx,         \* position of the for loop of run_indexing in `containers`
  exc,         \* the exception in flight or handled (NoExc when none)
  responses,   \* HTTP responses returned by the current invocation
  escaped,     \* TRUE when an exception left manual_index
  invoked,     \* TRUE once manual_index has been invoked
  prev         \* calls and exception of the previous invocation

vars == <<environ, storage, pc, calls, statuses, containers, idx, exc,
          responses, escaped, invoked, prev>>

(* --------------------------- request builders -------------------------- *)
\* the request create_search_index sends (method, URL path below
\* SEARCH_ENDPOINT, JSON payload)
create_search_index_request ==
  [kind |-> "index", method |-> "POST", url |-> <<"indexes">>,
   api_version |-> API_VERSION, headers |-> HEADERS,
   payload |->
     [name |-> INDEX_NAME,
      fields |->
        << [name |-> "id", type |-> "Edm.String", key |-> TRUE, searchable |-> FALSE],
           [name |-> "content", type |-> "Edm.String", searchable |-> TRUE],
           [name |-> "metadata_storage_name", type |-> "Edm.String",
            filterable |-> TRUE, sortable |-> TRUE],
           [name |-> "metadata_storage_path", type |-> "Edm.String", filterable |-> TRUE],
           [name |-> "metadata_storage_last_modified", type |-> "Edm.DateTimeOffset",
            sortable |-> TRUE] >>]]

\* the request create_data_source(container_name) sends
create_data_source_request(container_name) ==
  [kind |-> "datasource", method |-> "PUT",
   url |-> <<"datasources", container_name \o DS_SUFFIX>>,
   api_version |-> API_VERSION, headers |-> HEADERS,
   payload |->
     [name |-> container_name \o DS_SUFFIX,
      type |-> "azureblob",
      credentials |-> [connectionString |-> STORAGE_CONN_STRING],
      container |-> [name |-> container_name]]]

\* mutant of create_indexer_request: dataSourceName is the bare container
\* name
create_indexer_request_bare_ds_name(container_name) ==
  [kind |-> "indexer", method |-> "PUT",
   url |-> <<"indexers", container_name \o IDX_SUFFIX>>,
   api_version |-> API_VERSION, headers |-> HEADERS,
   payload |->
     [name |-> container_name \o IDX_SUFFIX,
      dataSourceName |-> container_name,
      targetIndexName |-> INDEX_NAME,
      parameters |->
        [maxFailedItems |-> -1,
         maxFailedItemsPerBatch |-> -1,
         configuration |->
           [failOnUnsupportedContentType |-> FALSE,
            failOnUnprocessableDocument |-> FALSE,
            indexedFileNameExtensions |-> ".pdf,.docx,.xlsx,.md,.txt",
            excludedFileNameExtensions |-> ".png,.jpeg",
            dataToExtract |-> "contentAndMetadata"]]]]

\* the request create_indexer(container_name) sends
create_indexer_request(container_name) ==
  [kind |-> "indexer", method |-> "PUT",
   url |-> <<"indexers", container_name \o IDX_SUFFIX>>,
   api_version |-> API_VERSION, headers |-> HEADERS,
   payload |->
     [name |-> container_name \o IDX_SUFFIX,
      dataSourceName |-> container_name \o DS_SUFFIX,
      targetIndexName |-> INDEX_NAME,
      parameters |->
        [maxFailedItems |-> -1,
         maxFailedItemsPerBatch |-> -1,
         configuration |->
           [failOnUnsupportedContentType |-> FALSE,
            failOnUnprocessableDocument |-> FALSE,
            indexedFileNameExtensions |-> ".pdf,.docx,.xlsx,.md,.txt",
            excludedFileNameExtensions |-> ".png,.jpeg",
            dataToExtract |-> "contentAndMetadata"]]]]

\* the enumeration call on the storage service
list_containers_call ==
  [kind |-> "list_containers", service |-> "storage", credential |-> STORAGE_CONN_STRING]

(* ------------------------------ resolver ------------------------------- *)
\* target = [c.strip() for c in BLOB_CONTAINERS.split(",")]
target_of(blob_containers) ==
  LET parts == split(blob_containers, ",")
  IN [k \in 1..Len(parts) |-> strip(parts[k])]

\* mutant of valid_of: the listing filtered by the allow-list, so the
\* result comes in the listing's order
valid_of_listing_order(target, available) ==
  SelectSeq(available, LAMBDA c : c \in Elems(target))

\* valid = [c for c in target if c in available]
valid_of(target, available) ==
  SelectSeq(target, LAMBDA c : c \in Elems(available))

\* what the storage client may do: from_connection_string raises (the
\* enumeration call is then never made), list_containers raises, or the
\* listing arrives
ListResults(st) ==
  {[connected |-> TRUE, ok |-> TRUE, names |-> st, error |-> ""]}
    \cup {[connected |-> TRUE, ok |-> FALSE, names |-> <<>>, error |-> e] :
             e \in StorageErrors}
    \cup {[connected |-> FALSE, ok |-> FALSE, names |-> <<>>, error |-> e] :
             e \in StorageErrors}

\* mutant of get_target_containers: the containers are enumerated before
\* the allow-list is looked at
get_target_containers_list_first(blob_containers, listed) ==
  IF ~listed.connected
  THEN [calls |-> <<>>, value |-> <<>>,
        exc |-> [type |-> listed.error, message |-> listed.error,
                 origin |-> "get_target_containers"]]
  ELSE IF ~listed.ok
  THEN [calls |-> <<list_containers_call>>, value |-> <<>>,
        exc |-> [type |-> listed.error, message |-> listed.error,
                 origin |-> "get_target_containers"]]
  ELSE IF blob_containers = <<>>
  THEN [calls |-> <<list_containers_call>>, value |-> <<>>,
        exc |-> [type |-> "ValueError", message |-> "BLOB_CONTAINERS env var is not set.",
                 origin |-> "get_target_containers"]]
  ELSE LET valid == valid_of(target_of(blob_containers), listed.names)
       IN IF valid = <<>>
          THEN [calls |-> <<list_containers_call>>, value |-> <<>>,
                exc |-> [type |-> "ValueError",
                         message |-> "No valid containers found to index.",
                         origin |-> "get_target_containers"]]
          ELSE [calls |-> <<list_containers_call>>, value |-> valid, exc |-> NoExc]

\* mutant of get_target_containers: an empty intersection is returned as an
\* empty list
get_target_containers_no_empty_check(blob_containers, listed) ==
  IF blob_containers = <<>>
  THEN [calls |-> <<>>, value |-> <<>>,
        exc |-> [type |-> "ValueError", message |-> "BLOB_CONTAINERS env var is not set.",
                 origin |-> "get_target_containers"]]
  ELSE IF ~listed.connected
  THEN [calls |-> <<>>, value |-> <<>>,
        exc |-> [type |-> listed.error, message |-> listed.error,
                 origin |-> "get_target_containers"]]
  ELSE IF ~listed.ok
  THEN [calls |-> <<list_containers_call>>, value |-> <<>>,
        exc |-> [type |-> listed.error, message |-> listed.error,
                 origin |-> "get_target_containers"]]
  ELSE [calls |-> <<list_containers_call>>,
        value |-> valid_of(target_of(blob_containers), listed.names), exc |-> NoExc]

\* get_target_containers(): listed is what the storage client does, used
\* only when the client is reached.  Gives the calls issued, and either
\* the returned list or the exception raised.
get_target_containers(blob_containers, listed) ==
  IF blob_containers = <<>>
  THEN [calls |-> <<>>, value |-> <<>>,
        exc |-> [type |-> "ValueError", message |-> "BLOB_CONTAINERS env var is not set.",
                 origin |-> "get_target_containers"]]
  ELSE IF ~listed.connected
  THEN [calls |-> <<>>, value |-> <<>>,
        exc |-> [type |-> listed.error, message |-> listed.error,
                 origin |-> "get_target_containers"]]
  ELSE IF ~listed.ok
  THEN [calls |-> <<list_containers_call>>, value |-> <<>>,
        exc |-> [type |-> listed.error, message |-> listed.error,
                 origin |-> "get_target_containers"]]
  ELSE LET valid == valid_of(target_of(blob_containers), listed.names)
       IN IF valid = <<>>
          THEN [calls |-> <<list_containers_call>>, value |-> <<>>,
                exc |-> [type |-> "ValueError",
                         message |-> "No valid containers found to index.",
                         origin |-> "get_target_containers"]]
          ELSE [calls |-> <<list_containers_call>>, value |-> valid, exc |-> NoExc]

(* ------------------------------ responses ------------------------------ *)
\* func.HttpResponse(json.dumps(result), status_code=200, ...)
success_response(result) ==
  [status_code |-> 200, mimetype |-> "application/json",
   body |-> [status |-> result.status, containers |-> result.containers]]

\* func.HttpResponse(json.dumps({"status": "error", "message": str(e)}), status_code=500, ...)
error_response(e) ==
  [status_code |-> 500, mimetype |-> "application/json",
   body |-> [status |-> "error", message |-> e.message]]

\* mutant of CaughtTypes: `except ValueError`
CaughtOnlyValueError == {"ValueError"}

\* the exception types `except Exception` catches
CaughtTypes == {"ValueError"} \cup TransportErrors \cup StorageErrors

(* ------------------------------- actions ------------------------------- *)
Init ==
  /\ environ \in {<<>>} \cup {[n \in {"BLOB_CONTAINERS"} |-> s] : s \in Strings}
  /\ storage \in Listings
  /\ pc = "idle"
  /\ calls = <<>>
  /\ statuses = <<>>
  /\ containers = <<>>
  /\ idx = 0
  /\ exc = NoExc
  /\ responses = <<>>
  /\ escaped = FALSE
  /\ invoked = FALSE
  /\ prev = [ran |-> FALSE, calls |-> <<>>, exc |-> NoExc]

\* mutant of send: response.raise_for_status() after the request
send_raise_for_status(request, origin, next_pc) ==
  /\ calls' = Append(calls, request)
  /\ \/ \E s \in StatusCodes :
          /\ statuses' = Append(statuses, s)
          /\ IF s >= 400
             THEN /\ exc' = [type |-> "HTTPError", message |-> "HTTPError", origin |-> origin]
                  /\ pc' = "except"
             ELSE /\ pc' = next_pc
                  /\ exc' = exc
     \/ \E e \in TransportErrors :
          /\ exc' = [type |-> e, message |-> e, origin |-> origin]
          /\ pc' = "except"
          /\ statuses' = statuses

\* response = requests.post/put(url, headers=HEADERS, json=payload); log(...):
\* the request goes out; either a response of any status comes back, which
\* is logged and nothing else, or the transport raises
send(request, origin, next_pc) ==
  /\ calls' = Append(calls, request)
  /\ \/ \E s \in StatusCodes :
          /\ statuses' = Append(statuses, s)
          /\ pc' = next_pc
          /\ exc' = exc
     \/ \E e \in TransportErrors :
          /\ exc' = [type |-> e, message |-> e, origin |-> origin]
          /\ pc' = "except"
          /\ statuses' = statuses

\* the HTTP trigger calls manual_index: a fresh invocation, no state kept
\* from the one before (prev only records it)
manual_index_invoke ==
  /\ pc = "idle"
  /\ invoked' = TRUE
  /\ prev' = [ran |-> invoked, calls |-> calls, exc |-> exc]
  /\ pc' = "create_search_index"
  /\ calls' = <<>>
  /\ statuses' = <<>>
  /\ containers' = <<>>
  /\ idx' = 0
  /\ exc' = NoExc
  /\ responses' = <<>>
  /\ escaped' = FALSE
  /\ UNCHANGED <<environ, storage>>

\* mutant of run_indexing_create_search_index: the index request is skipped
\* once an earlier invocation has made it
run_indexing_create_search_index_once ==
  /\ pc = "create_search_index"
  /\ IF prev.ran /\ prev.calls # <<>>
     THEN /\ pc' = "get_target_containers"
          /\ statuses' = Append(statuses, 201)
          /\ UNCHANGED <<calls, exc>>
     ELSE send(create_search_index_request, "create_search_index", "get_target_containers")
  /\ UNCHANGED <<environ, storage, containers, idx, responses, escaped, invoked, prev>>

\* run_indexing: create_search_index()
run_indexing_create_search_index ==
  /\ pc = "create_search_index"
  /\ send(create_search_index_request, "create_search_index", "get_target_containers")
  /\ UNCHANGED <<environ, storage, containers, idx, responses, escaped, invoked, prev>>

\* mutant of run_indexing_get_target_containers: an exception of the resolver
\* is swallowed and the run goes on with the configured names
run_indexing_get_target_containers_swallow ==
  /\ pc = "get_target_containers"
  /\ \E listed \in ListResults(storage) :
       LET r == get_target_containers(BLOB_CONTAINERS(environ), listed)
       IN /\ calls' = calls \o r.calls
          /\ exc' = r.exc
          /\ containers' = IF r.exc # NoExc THEN target_of(BLOB_CONTAINERS(environ))
                           ELSE r.value
          /\ idx' = 1
          /\ pc' = "create_data_source"
  /\ UNCHANGED <<environ, storage, statuses, responses, escaped, invoked, prev>>

\* run_indexing: containers = get_target_containers(); then the for loop is
\* entered
run_indexing_get_target_containers ==
  /\ pc = "get_target_containers"
  /\ \E listed \in ListResults(storage) :
       LET r == get_target_containers(BLOB_CONTAINERS(environ), listed)
       IN /\ calls' = calls \o r.calls
          /\ exc' = r.exc
          /\ IF r.exc # NoExc
             THEN /\ pc' = "except"
                  /\ UNCHANGED <<containers, idx>>
             ELSE /\ containers' = r.value
                  /\ idx' = 1
                  /\ pc' = IF 1 <= Len(r.value) THEN "create_data_source" ELSE "return"
  /\ UNCHANGED <<environ, storage, statuses, responses, escaped, invoked, prev>>

\* run_indexing: create_data_source(c)
run_indexing_create_data_source ==
  /\ pc = "create_data_source"
  /\ send(create_data_source_request(containers[idx]), "create_data_source",
          "create_indexer")
  /\ UNCHANGED <<environ, storage, containers, idx, responses, escaped, invoked, prev>>

\* mutant of run_indexing_create_indexer: the function returns from inside
\* the loop, after the first container
run_indexing_create_indexer_return_in_loop ==
  /\ pc = "create_indexer"
  /\ send(create_indexer_request(containers[idx]), "create_indexer", "return")
  /\ idx' = IF pc' = "except" THEN idx ELSE idx + 1
  /\ UNCHANGED <<environ, storage, containers, responses, escaped, invoked, prev>>

\* run_indexing: create_indexer(c), then the loop moves to the next container
run_indexing_create_indexer ==
  /\ pc = "create_indexer"
  /\ send(create_indexer_request(containers[idx]), "create_indexer",
          IF idx + 1 <= Len(containers) THEN "create_data_source" ELSE "return")
  /\ idx' = IF pc' = "except" THEN idx ELSE idx + 1
  /\ UNCHANGED <<environ, storage, containers, responses, escaped, invoked, prev>>

\* run_indexing returns {"status": "success", "containers": containers} and
\* manual_index answers 200 with it
manual_index_return ==
  /\ pc = "return"
  /\ responses' = Append(responses,
                         success_response([status |-> "success", containers |-> containers]))
  /\ pc' = "idle"
  /\ UNCHANGED <<environ, storage, calls, statuses, containers, idx, exc, escaped,
                 invoked, prev>>

\* except Exception as e: manual_index answers 500 with str(e)
manual_index_except ==
  /\ pc = "except"
  /\ IF exc.type \in CaughtTypes
     THEN /\ responses' = Append(responses, error_response(exc))
          /\ escaped' = escaped
     ELSE /\ escaped' = TRUE
          /\ responses' = responses
  /\ pc' = "idle"
  /\ UNCHANGED <<environ, storage, calls, statuses, containers, idx, exc, invoked, prev>>

Next ==
  \/ manual_index_invoke
  \/ run_indexing_create_search_index
  \/ run_indexing_get_target_containers
  \/ run_indexing_create_data_source
  \/ run_indexing_create_indexer
  \/ manual_index_return
  \/ manual_index_except

Spec == Init /\ [][Next]_vars

(* ------------------------- vocabulary of the claims -------------------- *)
\* the invocation has ended
Finished == pc = "idle" /\ invoked
\* the configured allow-list, as the resolver reads it
Target == target_of(BLOB_CONTAINERS(environ))
\* get_target_containers has been called and has ended in this invocation
ResolverActed == Len(statuses) >= 1 /\ pc # "get_target_containers"
ResolverRaised == exc.origin = "get_target_containers"
ResolverReturned == ResolverActed /\ ~ResolverRaised
\* exception types that stand for a network or credential failure
FailureTypes == TransportErrors \cup StorageErrors

\* v lists, in t's order, exactly the entries of t that are in avail
IsOrderedIntersection(v, t, avail) ==
  \E f \in [1..Len(v) -> 1..Len(t)] :
    /\ \A x, y \in 1..Len(v) : x < y => f[x] < f[y]
    /\ \A x \in 1..Len(v) : v[x] = t[f[x]] /\ v[x] \in avail
    /\ \A j \in 1..Len(t) : t[j] \in avail => \E x \in 1..Len(v) : f[x] = j

\* the calls of a run that resolves cs and completes
ExpectedCalls(cs) ==
  [k \in 1..(2 + 2 * Len(cs)) |->
     IF k = 1 THEN create_search_index_request
     ELSE IF k = 2 THEN list_containers_call
     ELSE IF k % 2 = 1 THEN create_data_source_request(cs[(k - 1) \div 2])
     ELSE create_indexer_request(cs[(k - 2) \div 2])]

IsPrefix(p, q) == Len(p) <= Len(q) /\ \A k \in 1..Len(p) : p[k] = q[k]
CountKind(kind) == Cardinality({k \in 1..Len(calls) : calls[k].kind = kind})

(* -------------------------------- claims ------------------------------- *)
\* C1: when some configured name is an actual container (and the listing
\* arrives), get_target_containers returns, and what it returns is the
\* ordered intersection: each returned name is configured and actual, each
\* configured name that is actual is returned, in the configured order.
C1_OrderedIntersection ==
  /\ ResolverReturned => IsOrderedIntersection(containers, Target, Elems(storage))
  /\ (ResolverActed /\ Elems(Target) \cap Elems(storage) # {}
        /\ ~(ResolverRaised /\ exc.type \in StorageErrors)) => ResolverReturned

C1_Witness ==
  /\ ResolverReturned
  /\ Len(Target) = 2
  /\ Len(storage) = 2
  /\ containers = <<Target[2]>>

\* C2: an invocation of manual_index ends with exactly one response and no
\* escaped exception: 200/success with the resolved list when run_indexing
\* returned, 500/error with the exception's message when anything raised.
C2_ExactlyOneResponse ==
  /\ ~escaped
  /\ ~Finished => responses = <<>>
  /\ Finished =>
       /\ Len(responses) = 1
       /\ IF exc = NoExc
          THEN /\ responses[1].status_code = 200
               /\ responses[1].body = [status |-> "success", containers |-> containers]
          ELSE /\ responses[1].status_code = 500
               /\ responses[1].body = [status |-> "error", message |-> exc.message]

C2_Witness ==
  /\ Finished
  /\ exc.type \in TransportErrors
  /\ exc.origin = "create_indexer"
  /\ Len(responses) = 1
  /\ responses[1].status_code = 500

\* C3: a run that succeeds with resolved list c1..cn has issued exactly: the
\* index request, the enumeration call, then for each ci in order its
\* data-source request followed by its indexer request (1, n and n requests),
\* and returns status success with c1..cn; at every point of a run the calls
\* issued so far are a prefix of that sequence.
C3_CallSequence ==
  /\ ResolverReturned => IsPrefix(calls, ExpectedCalls(containers))
  /\ (Finished /\ exc = NoExc) =>
       /\ calls = ExpectedCalls(containers)
       /\ CountKind("index") = 1
       /\ CountKind("list_containers") = 1
       /\ CountKind("datasource") = Len(containers)
       /\ CountKind("indexer") = Len(containers)
       /\ Len(responses) = 1
       /\ responses[1].body = [status |-> "success", containers |-> containers]

C3_Witness ==
  /\ Finished
  /\ exc = NoExc
  /\ Len(containers) = 2
  /\ containers[1] # containers[2]
  /\ Len(calls) = 6

\* C4: with BLOB_CONTAINERS empty or unset, get_target_containers raises its
\* "not set" error and the invocation never issues the enumeration call.
C4_EmptyAllowListNoEnumeration ==
  (BLOB_CONTAINERS(environ) = <<>> /\ ResolverActed) =>
     /\ ResolverRaised
     /\ exc.type = "ValueError"
     /\ exc.message = "BLOB_CONTAINERS env var is not set."
     /\ CountKind("list_containers") = 0

C4_Witness ==
  /\ "BLOB_CONTAINERS" \notin DOMAIN environ
  /\ ResolverActed
  /\ ResolverRaised
  /\ Finished

\* C5: when no configured name is an actual container, get_target_containers
\* raises instead of returning an empty list, and no success response carries
\* an empty containers list.
C5_EmptyIntersectionRaises ==
  /\ (ResolverActed /\ Elems(Target) \cap Elems(storage) = {}) =>
        /\ ResolverRaised
        /\ exc.type \in FailureTypes \/
             (exc.type = "ValueError" /\
                exc.message \in {"BLOB_CONTAINERS env var is not set.",
                                 "No valid containers found to index."})
  /\ \A k \in 1..Len(responses) :
        responses[k].status_code = 200 => responses[k].body.containers # <<>>
  /\ ResolverReturned => containers # <<>>

C5_Witness ==
  /\ Finished
  /\ BLOB_CONTAINERS(environ) # <<>>
  /\ storage # <<>>
  /\ exc.message = "No valid containers found to index."

\* C6: a second run under the same configuration and the same actual
\* containers issues the same calls as the first, whatever the first run
\* left behind or was answered: the two sequences agree call by call, and
\* are equal when neither run was cut short by a network or credential
\* failure.
C6_RunsIssueSameCalls ==
  prev.ran =>
    /\ IsPrefix(calls, prev.calls) \/ IsPrefix(prev.calls, calls)
    /\ (Finished /\ exc.type \notin FailureTypes /\ prev.exc.type \notin FailureTypes)
          => calls = prev.calls

C6_Witness ==
  /\ Finished
  /\ prev.ran
  /\ exc = NoExc
  /\ prev.exc = NoExc
  /\ Len(calls) = 6
  /\ calls = prev.calls
  /\ \A k \in 1..Len(statuses) : statuses[k] = 409

\* C7: the data-source request for container c is addressed to and named
\* c + "-ds" and bound to c; the indexer request for c is addressed to and
\* named c + "-idx", reads from the data source registered just before it for
\* c, and writes to the index the run's index request names.
C7_DerivedNames ==
  \A j \in 1..Len(calls) :
    /\ calls[j].kind = "datasource" =>
         LET c == calls[j].payload.container.name
         IN /\ c \in Elems(containers)
            /\ calls[j].url = <<"datasources", c \o <<"-", "d", "s">> >>
            /\ calls[j].payload.name = c \o <<"-", "d", "s">>
    /\ calls[j].kind = "indexer" =>
         /\ j > 1
         /\ calls[j - 1].kind = "datasource"
         /\ LET c == calls[j - 1].payload.container.name
            IN /\ calls[j].url = <<"indexers", c \o <<"-", "i", "d", "x">> >>
               /\ calls[j].payload.name = c \o <<"-", "i", "d", "x">>
               /\ calls[j].payload.dataSourceName = calls[j - 1].payload.name
         /\ calls[1].kind = "index"
         /\ calls[j].payload.targetIndexName = calls[1].payload.name

C7_Witness ==
  /\ Len(calls) >= 4
  /\ calls[4].kind = "indexer"
  /\ calls[4].payload.name = <<"a", "b", "-", "i", "d", "x">>
  /\ calls[4].payload.dataSourceName = <<"a", "b", "-", "d", "s">>

\* C8: no response status is ever raised or changes the run: an exception
\* out of a request is a transport failure, and a run whose resolver returned
\* and whose requests all got a response, of whatever status, has issued the
\* full call sequence and is answered 200/success with the full resolved list.
C8_StatusNeverRaised ==
  /\ exc.origin \in {"create_search_index", "create_data_source", "create_indexer"}
        => exc.type \in TransportErrors
  /\ (Finished /\ ResolverReturned /\ exc.type \notin TransportErrors) =>
        /\ calls = ExpectedCalls(valid_of(Target, storage))
        /\ Len(statuses) = Len(calls) - 1
        /\ Len(responses) = 1
        /\ responses[1].status_code = 200
        /\ responses[1].body = [status |-> "success",
                                containers |-> valid_of(Target, storage)]

C8_Witness ==
  /\ Finished
  /\ exc = NoExc
  /\ Len(statuses) = 5
  /\ \A k \in 1..Len(statuses) : statuses[k] = 409
  /\ responses[1].status_code = 200

\* C9: when get_target_containers raises, the invocation issues no
\* data-source and no indexer request, its only search-service request is the
\* index request made before the resolver, and it is answered 500.
C9_ResolverErrorAborts ==
  ResolverRaised =>
    /\ CountKind("datasource") = 0
    /\ CountKind("indexer") = 0
    /\ CountKind("index") = 1
    /\ calls[1] = create_search_index_request
    /\ pc \in {"except", "idle"}
    /\ Finished => Len(responses) = 1 /\ responses[1].status_code = 500

C9_Witness ==
  /\ Finished
  /\ ResolverRaised
  /\ exc.type \in StorageErrors
  /\ Len(calls) = 2
  /\ responses[1].status_code = 500

\* C10: every invocation issues exactly one index request by the time the
\* resolver is called, and that request is, like the data-source and indexer
\* requests, a create-or-update addressed to the named index: PUT on
\* indexes/<index name>.
C10_IndexRequestIsNamedUpsert ==
  /\ pc \notin {"idle", "create_search_index"} => CountKind("index") = 1
  /\ \A j \in 1..Len(calls) :
        calls[j].kind = "index" =>
          /\ calls[j].method = "PUT"
          /\ calls[j].url = <<"indexes", calls[j].payload.name>>

====
